---------------------------- MODULE Spec2Model ----------------------------
(***************************************************************************)
(* A model of app_masterfile.py: the text normalizer, the header cleaner,  *)
(* the column mapping engine, header-row selection (picked or              *)
(* auto-detected) and the row transfer loop of the Streamlit script.       *)
(*                                                                         *)
(* Strings.  TLA+ strings are atomic, so a Python str is a TLA+ string     *)
(* taken from a finite universe, and Chars gives its characters.  Every    *)
(* function of the script that looks inside a string (norm, str.strip,     *)
(* clean_header_row, SequenceMatcher) is computed on the characters.  A    *)
(* normalized string is kept as its sequence of characters.                *)
(***************************************************************************)
EXTENDS Integers, Sequences, FiniteSets, TLC

\* ------------------------------------------------------------------ strings

\* U+00A0 and U+2013, each one character of a Python str.
NBSP == "U+00A0"
ENDASH == "U+2013"
EMDASH == "U+2014"
MINUS == "U+2212"

\* The characters of each string of the universe.
Chars(s) ==
    CASE s = "" -> <<>>
      [] s = " " -> <<" ">>
      [] s = "<nbsp>" -> <<NBSP>>
      [] s = "SKU" -> <<"S", "K", "U">>
      [] s = "sku" -> <<"s", "k", "u">>
      [] s = "Title" -> <<"T", "i", "t", "l", "e">>
      [] s = "Foo" -> <<"F", "o", "o">>
      [] s = "X" -> <<"X">>
      [] s = "Y" -> <<"Y">>
      [] s = "Seller SKU" -> <<"S", "e", "l", "l", "e", "r", " ", "S", "K", "U">>
      [] s = "seller_sku" -> <<"s", "e", "l", "l", "e", "r", "_", "s", "k", "u">>
      [] s = "item_sku" -> <<"i", "t", "e", "m", "_", "s", "k", "u">>
      [] s = "Seller<endash>SKU" -> <<"S", "e", "l", "l", "e", "r", ENDASH, "S", "K", "U">>
      [] s = "Title - EN-US" -> <<"T", "i", "t", "l", "e", " ", "-", " ", "E", "N", "-", "U", "S">>
      [] s = "Listing Action (List or Unlist)" -> <<"L", "i", "s", "t", "i", "n", "g", " ", "A", "c", "t", "i", "o", "n", " ", "(", "L", "i", "s", "t", " ", "o", "r", " ", "U", "n", "l", "i", "s", "t", ")">>
      [] s = "Listing Action (List or Unlist) - en_US" -> <<"L", "i", "s", "t", "i", "n", "g", " ", "A", "c", "t", "i", "o", "n", " ", "(", "L", "i", "s", "t", " ", "o", "r", " ", "U", "n", "l", "i", "s", "t", ")", " ", "-", " ", "e", "n", "_", "U", "S">>
      [] s = "Action" -> <<"A", "c", "t", "i", "o", "n">>
      [] s = "ABC123" -> <<"A", "B", "C", "1", "2", "3">>
      [] s = "Widget" -> <<"W", "i", "d", "g", "e", "t">>
      [] s = "1" -> <<"1">>
      [] s = "List" -> <<"L", "i", "s", "t">>
      [] s = "A" -> <<"A">>
      [] s = "a" -> <<"a">>
      [] s = "B" -> <<"B">>
      [] s = "A." -> <<"A", ".">>
      [] s = "<nbsp>A" -> <<NBSP, "A">>
      [] s = "-" -> <<"-">>
      [] s = "en-us" -> <<"e", "n", "-", "u", "s">>
      [] s = "- en us" -> <<"-", " ", "e", "n", " ", "u", "s">>

\* The strings of the universe.
Universe ==
    {"", " ", "<nbsp>", "SKU", "sku", "Title", "Foo", "X", "Y", "Seller SKU",
     "seller_sku", "item_sku", "Seller<endash>SKU", "Title - EN-US",
     "Listing Action (List or Unlist)", "Listing Action (List or Unlist) - en_US",
     "Action", "ABC123", "Widget", "1", "List", "A", "a", "B", "A.", "<nbsp>A",
     "-", "en-us", "- en us"}

\* The string with the given characters.
Str(cs) == CHOOSE s \in Universe : Chars(s) = cs

UpperLetters ==
    <<"A", "B", "C", "D", "E", "F", "G", "H", "I", "J", "K", "L", "M",
      "N", "O", "P", "Q", "R", "S", "T", "U", "V", "W", "X", "Y", "Z">>

LowerLetters ==
    <<"a", "b", "c", "d", "e", "f", "g", "h", "i", "j", "k", "l", "m",
      "n", "o", "p", "q", "r", "s", "t", "u", "v", "w", "x", "y", "z">>

Digits == {"0", "1", "2", "3", "4", "5", "6", "7", "8", "9"}

\* str.isspace / the regex class \s, over the characters of the universe.
Whitespace == {" ", NBSP}

\* str.lower, one character.
LowerChar(c) ==
    IF \E k \in DOMAIN UpperLetters : UpperLetters[k] = c
    THEN LowerLetters[CHOOSE k \in DOMAIN UpperLetters : UpperLetters[k] = c]
    ELSE c

MapChars(x, F(_)) == [k \in 1..Len(x) |-> F(x[k])]

\* str.replace(old, new) for one-character old and new.
ReplaceChar(x, old, new) == [k \in 1..Len(x) |-> IF x[k] = old THEN new ELSE x[k]]

\* str.strip(): drops leading and trailing whitespace.
Strip(x) ==
    LET solid == {k \in 1..Len(x) : x[k] \notin Whitespace}
    IN  IF solid = {} THEN <<>>
        ELSE SubSeq(x, CHOOSE k \in solid : \A m \in solid : k <= m,
                       CHOOSE k \in solid : \A m \in solid : k >= m)

\* re.sub(r"[S]+", " ", x): every maximal run of characters of S becomes one space.
RECURSIVE SubRuns(_, _)
SubRuns(x, S) ==
    IF x = <<>> THEN <<>>
    ELSE IF Head(x) \notin S THEN <<Head(x)>> \o SubRuns(Tail(x), S)
    ELSE IF Len(x) > 1 /\ x[2] \in S THEN SubRuns(Tail(x), S)
    ELSE <<" ">> \o SubRuns(Tail(x), S)

\* First index at or after k holding no whitespace (Len(x) + 1 when there is none).
SkipWs(x, k) ==
    LET solid == {m \in k..Len(x) : x[m] \notin Whitespace}
    IN  IF solid = {} THEN Len(x) + 1
        ELSE CHOOSE m \in solid : \A n \in solid : m <= n

\* x[k..] matches \s*-\s*en\s*[-_ ]\s*us\s*$ from its first character to its last.
LocaleSuffixAt(x, k) ==
    LET dash == SkipWs(x, k)
        e == SkipWs(x, dash + 1)
    IN  /\ dash <= Len(x) /\ x[dash] = "-"
        /\ e + 1 <= Len(x) /\ x[e] = "e" /\ x[e + 1] = "n"
        /\ \E u \in (e + 3)..(Len(x) - 1) :
              /\ x[u] = "u" /\ x[u + 1] = "s"
              /\ SkipWs(x, u + 2) = Len(x) + 1
              \* between "en" and "us": \s*[-_ ]\s*
              /\ \E sep \in (e + 2)..(u - 1) :
                    /\ x[sep] \in {"-", "_", " "}
                    /\ \A m \in ((e + 2)..(u - 1)) \ {sep} : x[m] \in Whitespace

\* re.sub(r"\s*-\s*en\s*[-_ ]\s*us\s*$", "", x): the leftmost match is removed.
StripLocaleSuffix(x) ==
    LET starts == {k \in 1..Len(x) : LocaleSuffixAt(x, k)}
    IN  IF starts = {} THEN x
        ELSE SubSeq(x, 1, (CHOOSE k \in starts : \A m \in starts : k <= m) - 1)

Separators == {".", "_", "/", "\\", "-"}

\* The characters of the universe that [^0-9a-z\s] matches.
NotAlnumOrSpace(x) ==
    {x[k] : k \in 1..Len(x)} \ ({LowerLetters[k] : k \in DOMAIN LowerLetters} \cup Digits \cup Whitespace)

\* norm, on the characters of the string.
normChars(cs) ==
    LET x1 == MapChars(Strip(ReplaceChar(cs, NBSP, " ")), LowerChar)
        x2 == StripLocaleSuffix(x1)
        x3 == ReplaceChar(ReplaceChar(ReplaceChar(x2, ENDASH, "-"), EMDASH, "-"), MINUS, "-")
        x4 == SubRuns(x3, Separators)
        x5 == SubRuns(x4, NotAlnumOrSpace(x4))
    IN  Strip(SubRuns(x5, Whitespace))

\* norm of every string of the universe, computed once.
NormTable == [s \in Universe |-> normChars(Chars(s))]

norm(s) == NormTable[s]

\* ------------------------------------------------------ similarity scorer

\* The blocks (i, j, k) with a[i..i+k-1] = b[j..j+k-1], k >= 1.
Blocks(a, b) ==
    {t \in (1..Len(a)) \X (1..Len(b)) \X (1..Len(a)) :
        /\ t[1] + t[3] - 1 <= Len(a)
        /\ t[2] + t[3] - 1 <= Len(b)
        /\ SubSeq(a, t[1], t[1] + t[3] - 1) = SubSeq(b, t[2], t[2] + t[3] - 1)}

\* SequenceMatcher.find_longest_match with no junk: the longest block, of those
\* the one starting earliest in a, of those the one starting earliest in b.
Longest(blocks) ==
    CHOOSE t \in blocks : \A u \in blocks :
        \/ t[3] > u[3]
        \/ t[3] = u[3] /\ t[1] < u[1]
        \/ t[3] = u[3] /\ t[1] = u[1] /\ t[2] <= u[2]

\* SequenceMatcher.get_matching_blocks: the number of characters in the
\* matching blocks of a and b.  The longest block is taken, and the pieces to
\* its left and to its right are matched the same way.
RECURSIVE MatchingChars(_, _)
MatchingAround(a, b, m) ==
    m[3] + MatchingChars(SubSeq(a, 1, m[1] - 1), SubSeq(b, 1, m[2] - 1))
         + MatchingChars(SubSeq(a, m[1] + m[3], Len(a)), SubSeq(b, m[2] + m[3], Len(b)))

MatchingIn(a, b, blocks) == IF blocks = {} THEN 0 ELSE MatchingAround(a, b, Longest(blocks))

MatchingChars(a, b) == MatchingIn(a, b, Blocks(a, b))

\* SequenceMatcher(None, a, b).ratio() = 2.0 * matches / (len(a) + len(b)), and
\* 1.0 for two empty strings, as the fraction num / den.
Ratio(a, b) ==
    IF Len(a) + Len(b) = 0 THEN [num |-> 1, den |-> 1]
    ELSE [num |-> 2 * MatchingChars(a, b), den |-> Len(a) + Len(b)]

RatioGreater(r, s) == r.num * s.den > s.num * r.den

\* scored = [(SequenceMatcher(None, q, norm(c)).ratio(), c) for c in candidates]
Scored(q, candidates) ==
    [n \in 1..Len(candidates) |->
        [score |-> Ratio(q, norm(candidates[n])), name |-> candidates[n]]]

\* The place of scored[n] after scored.sort(key=score, reverse=True), a stable sort.
SortPlace(scored, n) ==
    1 + Cardinality({m \in 1..Len(scored) :
            \/ RatioGreater(scored[m].score, scored[n].score)
            \/ m < n /\ ~RatioGreater(scored[n].score, scored[m].score)})

SortedByScore(scored) ==
    [p \in 1..Len(scored) |-> scored[CHOOSE n \in 1..Len(scored) : SortPlace(scored, n) = p]]

\* scored[:k]
FirstK(s, k) == SubSeq(s, 1, IF Len(s) < k THEN Len(s) ELSE k)

\* top_matches: the k best candidates by descending ratio.
top_matches(query, candidates, k) == FirstK(SortedByScore(Scored(norm(query), candidates)), k)

\* ----------------------------------------------------- worksheet, used columns

\* A cell that holds None.
NoneCell == "<None>"

\* ws.cell(row=r, column=c).value
CellValue(ws, r, c) == IF <<r, c>> \in DOMAIN ws.cells THEN ws.cells[<<r, c>>] ELSE NoneCell

\* ws.cell(row=r, column=c, value=v)
SetCell(ws, r, c, v) ==
    [ws EXCEPT !.cells = [p \in (DOMAIN ws.cells) \cup {<<r, c>>} |->
                             IF p = <<r, c>> THEN v ELSE ws.cells[p]]]

HARD_CAP == 512
EMPTY_STREAK_STOP == 8

\* The loop of worksheet_used_cols from column c on; the value is last_nonempty
\* when the loop ends (at max_try, or at a streak of empty_streak_stop).
RECURSIVE used_cols_loop(_, _, _, _, _, _)
used_cols_loop(ws, header_rows, c, max_try, last_nonempty, streak) ==
    IF c > max_try THEN last_nonempty
    ELSE IF \E r \in header_rows : CellValue(ws, r, c) \notin {NoneCell, ""}
         THEN used_cols_loop(ws, header_rows, c + 1, max_try, c, 0)
         ELSE IF streak + 1 >= EMPTY_STREAK_STOP THEN last_nonempty
              ELSE used_cols_loop(ws, header_rows, c + 1, max_try, last_nonempty, streak + 1)

worksheet_used_cols(ws, header_rows) ==
    LET max_try == IF ws.max_column < HARD_CAP THEN ws.max_column ELSE HARD_CAP
        last == used_cols_loop(ws, header_rows, 1, max_try, 0, 0)
    IN  IF last > 1 THEN last ELSE 1

\* ------------------------------------------------------------ header cleaner

\* One element of clean_header_row: "" for None, else the text with NBSP
\* replaced by a space, stripped.
clean_header(v) ==
    IF v = NoneCell THEN "" ELSE Str(Strip(ReplaceChar(Chars(v), NBSP, " ")))

clean_header_row(raw_row) == [k \in 1..Len(raw_row) |-> clean_header(raw_row[k])]

\* The loop of build_on_df_from_raw over headers_raw[n..]; idx = n - 1 is the
\* 0-based position.  acc holds keep_indices, keep_names and seen_norm, and
\* keep_step is the loop's body for the header h with normalized form hn.
keep_step_exact_text(acc, idx, h, hn) ==
    IF hn = << >> THEN acc
    ELSE IF Chars(h) \in acc.seen_norm THEN acc
    ELSE [keep_indices |-> Append(acc.keep_indices, idx),
          keep_names |-> Append(acc.keep_names,
                                IF h # "" THEN h ELSE "col_" \o ToString(idx + 1)),
          seen_norm |-> acc.seen_norm \cup {Chars(h)}]

keep_step(acc, idx, h, hn) ==
    IF hn = << >> THEN acc                    \* drop truly blank
    ELSE IF hn \in acc.seen_norm THEN acc     \* drop duplicates by normalized name
    ELSE [keep_indices |-> Append(acc.keep_indices, idx),
          keep_names |-> Append(acc.keep_names,
                                IF h # "" THEN h ELSE "col_" \o ToString(idx + 1)),
          seen_norm |-> acc.seen_norm \cup {hn}]

RECURSIVE keep_loop(_, _, _)
keep_loop(headers_raw, n, acc) ==
    IF n > Len(headers_raw) THEN acc
    ELSE keep_loop(headers_raw, n + 1,
                   keep_step(acc, n - 1, headers_raw[n], norm(headers_raw[n])))

\* The DataFrame build_on_df_from_raw returns holds raw_df's rows from
\* header_row_index + 1 on, restricted to keep_indices: it is kept as the
\* 0-based index of its first row in raw_df (first), the kept positions and
\* the column names, and read through DfLen and DfCell.
MakeDf(header_row_index, kept) ==
    [df |-> [first |-> header_row_index + 1,
             keep_indices |-> kept.keep_indices,
             columns |-> kept.keep_names],
     keep_names |-> kept.keep_names]

build_on_df_from_raw(raw, header_row_index) ==
    MakeDf(header_row_index,
           keep_loop(clean_header_row(raw[header_row_index + 1]), 1,
                     [keep_indices |-> << >>, keep_names |-> << >>, seen_norm |-> {}]))

\* len(df)
DfLen(raw, df) == Len(raw) - df.first

\* df[df.columns[j]].iloc[i], i 0-based
DfCell(raw, df, j, i) == raw[df.first + i + 1][df.keep_indices[j] + 1]

\* ------------------------------------------------------------ mapping engine

\* v[:] if isinstance(v, list) else [v], for a value of the mapping JSON:
\* a list of strings (isList) or one string.
AliasList(v) == IF v.isList THEN v.items ELSE <<v.scalar>>

\* MAPPING = {norm(k): ... for k, v in mapping_raw.items()}; mapping_raw is the
\* sequence of the JSON object's items in order, and a later key with the same
\* normalized form replaces an earlier one.
BuildMAPPING(mapping_raw) ==
    [n \in {norm(mapping_raw[p].k) : p \in 1..Len(mapping_raw)} |->
        LET same == {p \in 1..Len(mapping_raw) : norm(mapping_raw[p].k) = n}
        IN  AliasList(mapping_raw[CHOOSE p \in same : \A q \in same : p >= q].v)]

\* series_by_alias = {norm(h): df[h] for h in on_headers}: for each normalized
\* header the position in df.columns of the (last) column with it.
series_by_alias(df) ==
    [n \in {norm(df.columns[j]) : j \in 1..Len(df.columns)} |->
        LET same == {j \in 1..Len(df.columns) : norm(df.columns[j]) = n}
        IN  CHOOSE j \in same : \A m \in same : j >= m]

\* The entries of master_to_source: a column of the DataFrame (a pd.Series, by
\* its position in df.columns), SENTINEL_LISTING_ACTION, or no entry.
SeriesRef(j) == [kind |-> "series", col |-> j]
SENTINEL_LISTING_ACTION == [kind |-> "sentinel", col |-> 0]
NoEntry == [kind |-> "none", col |-> 0]

\* aliases = MAPPING.get(disp_norm, []); if m_disp: aliases += [m_disp].
\* The += extends the list in place: when the list is the table's own (the key
\* is present) the table's entry grows too; a list made by the default does not
\* touch the table.
alias_step_shared_default(MAP, disp_norm, m_disp) ==
    LET key == IF disp_norm \in DOMAIN MAP THEN disp_norm ELSE <<"default">>
        got == IF key \in DOMAIN MAP THEN MAP[key] ELSE <<>>
        aliases == IF m_disp # "" THEN got \o <<m_disp>> ELSE got
    IN  [aliases |-> aliases,
         MAPPING |-> [n \in DOMAIN MAP \cup {key} |-> IF n = key THEN aliases ELSE MAP[n]]]

alias_step(MAP, disp_norm, m_disp) ==
    LET present == disp_norm \in DOMAIN MAP
        got == IF present THEN MAP[disp_norm] ELSE <<>>
        aliases == IF m_disp # "" THEN got \o <<m_disp>> ELSE got
    IN  [aliases |-> aliases,
         MAPPING |-> IF present THEN [MAP EXCEPT ![disp_norm] = aliases] ELSE MAP]

\* The loop "for a in aliases: ... break": the position of the alias the loop
\* stops at, 0 when it runs to the end.
first_match_last(aliases, keys) ==
    LET hits == {n \in 1..Len(aliases) : norm(aliases[n]) \in keys}
    IN  IF hits = {} THEN 0 ELSE CHOOSE n \in hits : \A m \in hits : n >= m

first_match(aliases, keys) ==
    LET hits == {n \in 1..Len(aliases) : norm(aliases[n]) \in keys}
    IN  IF hits = {} THEN 0 ELSE CHOOSE n \in hits : \A m \in hits : n <= m

LISTING_ACTION_LABEL == "Listing Action (List or Unlist)"

\* disp_norm == norm("Listing Action (List or Unlist)")
is_listing_action_never(disp_norm) == FALSE

is_listing_action(disp_norm) == disp_norm = norm(LISTING_ACTION_LABEL)

\* One report line.  A suggestion is kept as (score, name), the score a fraction.
ReportLine(kind, m_disp, alias, suggestions) ==
    [kind |-> kind, m_disp |-> m_disp, alias |-> alias, suggestions |-> suggestions]

\* The end of the loop's body for master column c (the if / else after the walk
\* of the aliases): hit is the position of the alias that matched, 0 for none.
record_column(st, c, m_disp, disp_norm, step, by_alias, on_headers, hit) ==
    IF hit # 0
    THEN [st EXCEPT !.MAPPING = step.MAPPING,
                    !.master_to_source[c] = SeriesRef(by_alias[norm(step.aliases[hit])]),
                    !.chosen_alias[c] = step.aliases[hit],
                    !.resolved = @ + 1,
                    !.report_lines = Append(@, ReportLine("ok", m_disp, step.aliases[hit], << >>))]
    ELSE IF is_listing_action(disp_norm)
    THEN [st EXCEPT !.MAPPING = step.MAPPING,
                    !.master_to_source[c] = SENTINEL_LISTING_ACTION,
                    !.report_lines = Append(@, ReportLine("fixed", m_disp, "", << >>))]
    ELSE [st EXCEPT !.MAPPING = step.MAPPING,
                    !.unmatched = Append(@, m_disp),
                    !.report_lines = Append(@, ReportLine("unmatched", m_disp, "",
                                                          top_matches(m_disp, on_headers, 3)))]

\* The walk of the aliases, for the alias list step holds.
resolve_column(st, c, m_disp, disp_norm, step, by_alias, on_headers) ==
    record_column(st, c, m_disp, disp_norm, step, by_alias, on_headers,
                  first_match(step.aliases, DOMAIN by_alias))

\* The loop's body for master column c.
map_column(st, c, m_disp, disp_norm, by_alias, on_headers) ==
    resolve_column(st, c, m_disp, disp_norm, alias_step(st.MAPPING, disp_norm, m_disp),
                   by_alias, on_headers)

\* build_mapping's loop for master columns c, c + 1, ...; st holds MAPPING and
\* what the function has built so far.
RECURSIVE mapping_loop(_, _, _, _, _)
mapping_loop(displays, by_alias, on_headers, c, st) ==
    IF c > Len(displays) THEN st
    ELSE mapping_loop(displays, by_alias, on_headers, c + 1,
                      map_column(st, c, displays[c], norm(displays[c]), by_alias, on_headers))

\* build_mapping(df), reading master_displays and MAPPING.  master_to_source and
\* chosen_alias are kept as sequences over the master columns, NoEntry and
\* NoneCell standing for a column with no key in the dict.  The value holds the
\* five results and MAPPING as the call leaves it.
build_mapping(MAP, displays, df) ==
    mapping_loop(displays, series_by_alias(df), df.columns, 1,
        [MAPPING |-> MAP,
         resolved |-> 0,
         master_to_source |-> [c \in 1..Len(displays) |-> NoEntry],
         chosen_alias |-> [c \in 1..Len(displays) |-> NoneCell],
         unmatched |-> << >>,
         report_lines |-> << >>])

\* The five values build_mapping returns.
Returned(r) ==
    [resolved |-> r.resolved, master_to_source |-> r.master_to_source,
     chosen_alias |-> r.chosen_alias, unmatched |-> r.unmatched,
     report_lines |-> r.report_lines]

\* ------------------------------------------------------------------ inputs

\* Bounds of the inputs.
MaxRows == 3
MaxManualRow == 2
MaxBlankRun == 51

ListValue(items) == [isList |-> TRUE, items |-> items, scalar |-> ""]
ScalarValue(s) == [isList |-> FALSE, items |-> <<>>, scalar |-> s]

\* Mapping JSON objects, as their items in order.
TabSku == << [k |-> "SKU", v |-> ListValue(<<"Seller SKU">>)] >>
TabFoo ==
    << [k |-> "Foo", v |-> ListValue(<<"X", "Y">>)],
       [k |-> "sku", v |-> ScalarValue("item_sku")],
       [k |-> "SKU", v |-> ListValue(<<"Seller SKU">>)],
       [k |-> "Listing Action (List or Unlist)", v |-> ListValue(<<"Action">>)] >>
TabEmpty == << >>

\* A worksheet with the given rows 1 and 2 (NoneCell for an empty cell).
MakeWs(row1, row2) ==
    [max_column |-> IF Len(row1) > Len(row2) THEN Len(row1) ELSE Len(row2),
     cells |-> [p \in {<<1, c>> : c \in {c \in 1..Len(row1) : row1[c] # NoneCell}}
                      \cup {<<2, c>> : c \in {c \in 1..Len(row2) : row2[c] # NoneCell}} |->
                  IF p[1] = 1 THEN row1[p[2]] ELSE row2[p[2]]]]

EmptyWs == MakeWs(<< >>, << >>)

\* Masterfile templates: row 1 = labels, row 2 = keys.
TplListing ==
    MakeWs(<<"SKU", "Title", "Listing Action (List or Unlist)">>,
           <<"sku", "title", "listing_action">>)
TplAlias ==
    MakeWs(<<"Foo", NoneCell, "SKU", "sku">>, <<"foo", "spare", "sku", "sku_alt">>)
TplSparse ==
    MakeWs(<<"Listing Action (List or Unlist) - en_US", "Title", NoneCell, NoneCell, NoneCell,
             NoneCell, NoneCell, NoneCell, NoneCell, NoneCell, "Foo">>,
           <<"listing_action", NoneCell>>)

\* The template and mapping pairs the short sheets are run against.
ShortCases ==
    {<<TplListing, TabSku>>, <<TplListing, TabFoo>>, <<TplListing, TabEmpty>>,
     <<TplAlias, TabFoo>>, <<TplAlias, TabEmpty>>, <<TplSparse, TabFoo>>}

\* Rows of an onboarding sheet, as read_excel(header=None, dtype=str) gives them.
RowSellerTitle == <<"Seller SKU", "Title", "">>
RowYXFoo == <<"Y", "X", "Foo">>
RowDupAction == <<"seller_sku", "Seller<endash>SKU", "Action">>
RowData == <<"ABC123", "Widget", "1">>
RowThirdOnly == <<" ", "", "1">>
RowBlank == <<"", "<nbsp>", "">>
SheetRows == {RowSellerTitle, RowYXFoo, RowDupAction, RowData, RowThirdOnly, RowBlank}

RECURSIVE SeqsUpTo(_, _)
SeqsUpTo(S, n) ==
    IF n = 0 THEN {<< >>}
    ELSE LET shorter == SeqsUpTo(S, n - 1)
         IN  shorter \cup {Append(s, x) : s \in {s \in shorter : Len(s) = n - 1}, x \in S}

Repeat(row, n) == [k \in 1..n |-> row]

\* Short sheets: every sequence of at most MaxRows rows.
ShortSheets == SeqsUpTo(SheetRows, MaxRows)

\* Long sheets: a header row, then data rows around a run of droppable rows;
\* and sheets with a run one short of the limit, a data row, and a run at the limit.
LongSheets ==
    {<<RowSellerTitle>> \o pre \o Repeat(blank, n) \o post :
        pre \in {<< >>, <<RowData>>},
        blank \in {RowBlank, RowThirdOnly},
        n \in 0..MaxBlankRun,
        post \in {<< >>, <<RowData>>, <<RowData, RowBlank, RowData>>}}
    \cup
    {<<RowSellerTitle>> \o pre \o Repeat(RowBlank, 49) \o <<RowData>>
                       \o Repeat(RowThirdOnly, 50) \o <<RowData>> :
        pre \in {<< >>, <<RowData>>}}

\* An uploaded file: none, one the reader fails on, or one that reads.
NoUpload(content) == [status |-> "none", content |-> content]
Corrupt(content) == [status |-> "corrupt", content |-> content]
Readable(content) == [status |-> "ok", content |-> content]

\* The pasted text and the uploaded mapping.json: blank / absent, not JSON, or JSON.
NoJson == [kind |-> "blank", table |-> << >>]
BadJson == [kind |-> "invalid", table |-> << >>]
Json(table) == [kind |-> "json", table |-> table]

\* ------------------------------------------------------------------- state

VARIABLES
    \* the widgets: the two uploads, the pasted text, mapping.json, the radio, the number input
    masterfile_file, onboarding_file, mapping_text, mapping_file, header_mode, header_row_manual,
    \* where the script is, and the st.error it showed ("" for none)
    pc, error,
    \* MAPPING, the master workbook's sheet, used_cols, master_displays, raw_df
    MAPPING, master_ws, used_cols, master_displays, raw_df,
    \* header-row selection: h0, the loop's candidate (candidate_df, m2s, chosen,
    \* unmatch, rep, score), best, resolved, kept_headers
    h0, cand, best, resolved, kept_headers,
    \* what the selection leaves
    on_df, master_to_source, chosen_alias, unmatched, report, detected_header_row,
    \* the transfer loop: blanks, written, and i, the number of values the loop
    \* has taken from range(len(on_df))
    blanks, written, i,
    \* the count st.success reports (-1 before it)
    rows_written

inputs == <<masterfile_file, onboarding_file, mapping_text, mapping_file, header_mode,
            header_row_manual>>
loaded == <<MAPPING, master_ws, used_cols, master_displays, raw_df>>
detect == <<h0, cand, best, resolved, kept_headers>>
selected == <<on_df, master_to_source, chosen_alias, unmatched, report, detected_header_row>>
transfer == <<blanks, written, i, rows_written>>

vars == <<inputs, pc, error, loaded, detect, selected, transfer>>

NoDf == [first |-> 0, keep_indices |-> << >>, columns |-> << >>]

NoCand == [candidate_df |-> NoDf, m2s |-> << >>, chosen |-> << >>, unmatch |-> << >>,
           rep |-> << >>, score |-> <<0, 0>>]

\* best = None
NoBest == [set |-> FALSE, score |-> <<0, 0>>, h0 |-> 0, df |-> NoDf, m2s |-> << >>,
           chosen |-> << >>, unmatch |-> << >>, rep |-> << >>, kept_headers |-> << >>]

\* The state when the button is pressed, nothing read yet.
Fresh ==
    /\ pc = "start" /\ error = ""
    /\ MAPPING = BuildMAPPING(<< >>) /\ master_ws = EmptyWs /\ used_cols = 0
    /\ master_displays = << >> /\ raw_df = << >>
    /\ h0 = 0 /\ cand = NoCand /\ best = NoBest /\ resolved = 0 /\ kept_headers = << >>
    /\ on_df = NoDf /\ master_to_source = << >> /\ chosen_alias = << >> /\ unmatched = << >>
    /\ report = << >> /\ detected_header_row = 0
    /\ blanks = 0 /\ written = 0 /\ i = 0 /\ rows_written = -1

HeaderModes == {"Auto-detect", "Pick a row number"}

\* Readable files and a parsed mapping: short sheets against the templates and tables.
InitShort ==
    /\ \E case \in ShortCases :
          /\ masterfile_file = Readable(case[1])
          /\ mapping_text = Json(case[2])
    /\ onboarding_file \in {Readable(sheet) : sheet \in ShortSheets}
    /\ mapping_file = NoJson
    /\ header_mode \in HeaderModes
    /\ header_row_manual \in (IF header_mode = "Auto-detect" THEN {1} ELSE 1..MaxManualRow)
    /\ Fresh

\* Long sheets, whose runs of droppable rows reach blank_streak_limit.
InitLong ==
    /\ masterfile_file = Readable(TplListing)
    /\ onboarding_file \in {Readable(sheet) : sheet \in LongSheets}
    /\ mapping_text = NoJson
    /\ mapping_file = Json(TabSku)
    /\ header_mode \in HeaderModes
    /\ header_row_manual = 1
    /\ Fresh

\* Missing, unreadable and unparsable inputs.
InitUploads ==
    /\ masterfile_file \in {NoUpload(EmptyWs), Corrupt(EmptyWs), Readable(TplListing)}
    /\ onboarding_file \in {NoUpload(<< >>), Corrupt(<< >>),
                            Readable(<<RowSellerTitle, RowData>>)}
    /\ mapping_text \in {NoJson, BadJson, Json(TabSku)}
    /\ mapping_file \in {NoJson, BadJson, Json(TabFoo)}
    /\ header_mode \in HeaderModes
    /\ header_row_manual = 1
    /\ Fresh

Init == InitShort \/ InitLong \/ InitUploads

\* ----------------------------------------------------------------- the script

\* not masterfile_file or not onboarding_file
uploads_missing(master, onboarding) == master.status = "none" \/ onboarding.status = "none"

\* if not masterfile_file or not onboarding_file: st.error(...); st.stop()
CheckUploads ==
    /\ pc = "start"
    /\ IF uploads_missing(masterfile_file, onboarding_file)
       THEN error' = "MissingInput" /\ pc' = "stopped"
       ELSE error' = error /\ pc' = "mapping"
    /\ UNCHANGED <<inputs, loaded, detect, selected, transfer>>

\* json.loads(mapping_text) if mapping_text.strip() else (json.load(mapping_file)
\* if mapping_file else None): what is parsed ("none" when there is nothing to parse).
load_mapping_fallback(text, file) ==
    IF text.kind = "json" THEN text
    ELSE IF file.kind # "blank" THEN file
    ELSE [kind |-> IF text.kind = "invalid" THEN "invalid" ELSE "none", table |-> << >>]

load_mapping(text, file) ==
    IF text.kind # "blank" THEN text
    ELSE IF file.kind # "blank" THEN file
    ELSE [kind |-> "none", table |-> << >>]

\* The try / except around the parse, the test for None, and MAPPING.
LoadMapping ==
    /\ pc = "mapping"
    /\ LET mapping_raw == load_mapping(mapping_text, mapping_file)
       IN  IF mapping_raw.kind = "invalid"
           THEN error' = "MappingParse" /\ pc' = "stopped" /\ MAPPING' = MAPPING
           ELSE IF mapping_raw.kind = "none"
           THEN error' = "MappingMissing" /\ pc' = "stopped" /\ MAPPING' = MAPPING
           ELSE error' = error /\ pc' = "master" /\ MAPPING' = BuildMAPPING(mapping_raw.table)
    /\ UNCHANGED <<inputs, master_ws, used_cols, master_displays, raw_df, detect, selected,
                   transfer>>

\* [master_ws.cell(row=1, column=c).value or "" for c in range(1, used_cols + 1)]
displays_of(ws, n) ==
    [c \in 1..n |-> IF CellValue(ws, 1, c) = NoneCell THEN "" ELSE CellValue(ws, 1, c)]

\* load_workbook, used_cols and master_displays.
ReadMaster ==
    /\ pc = "master"
    /\ IF masterfile_file.status # "ok"
       THEN /\ error' = "MasterUnreadable" /\ pc' = "stopped"
            /\ UNCHANGED <<master_ws, used_cols, master_displays>>
       ELSE /\ error' = error /\ pc' = "onboarding"
            /\ master_ws' = masterfile_file.content
            /\ used_cols' = worksheet_used_cols(masterfile_file.content, {1, 2})
            /\ master_displays' = displays_of(masterfile_file.content,
                                     worksheet_used_cols(masterfile_file.content, {1, 2}))
    /\ UNCHANGED <<inputs, MAPPING, raw_df, detect, selected, transfer>>

\* pd.read_excel(onboarding_file, header=None, dtype=str).fillna("")
ReadOnboarding ==
    /\ pc = "onboarding"
    /\ IF onboarding_file.status # "ok"
       THEN error' = "OnboardingUnreadable" /\ pc' = "stopped" /\ raw_df' = raw_df
       ELSE /\ error' = error /\ pc' = "header"
            /\ raw_df' = [r \in 1..Len(onboarding_file.content) |->
                             [k \in 1..Len(onboarding_file.content[r]) |->
                                 IF onboarding_file.content[r][k] = NoneCell THEN ""
                                 ELSE onboarding_file.content[r][k]]]
    /\ UNCHANGED <<inputs, MAPPING, master_ws, used_cols, master_displays, detect, selected,
                   transfer>>

\* h0 < 0 or h0 >= len(raw_df)
row_out_of_range(h, raw) == h < 0 \/ h >= Len(raw)

\* The "Pick a row number" branch with the row in range: built is what
\* build_on_df_from_raw returned and r what build_mapping returned.
PickedMapped(h, built, r) ==
    /\ error' = error /\ pc' = "transfer" /\ h0' = h
    /\ MAPPING' = r.MAPPING
    /\ on_df' = built.df /\ kept_headers' = built.keep_names
    /\ resolved' = r.resolved
    /\ master_to_source' = r.master_to_source
    /\ chosen_alias' = r.chosen_alias
    /\ unmatched' = r.unmatched
    /\ report' = r.report_lines
    /\ detected_header_row' = h + 1

PickedBuilt(h, built) == PickedMapped(h, built, build_mapping(MAPPING, master_displays, built.df))

\* The "Pick a row number" branch.
PickRow ==
    /\ pc = "header" /\ header_mode = "Pick a row number"
    /\ IF row_out_of_range(header_row_manual - 1, raw_df)
       THEN /\ error' = "HeaderRowOutOfRange" /\ pc' = "stopped" /\ h0' = header_row_manual - 1
            /\ UNCHANGED <<MAPPING, resolved, kept_headers, selected>>
       ELSE PickedBuilt(header_row_manual - 1,
                        build_on_df_from_raw(raw_df, header_row_manual - 1))
    /\ UNCHANGED <<inputs, master_ws, used_cols, master_displays, raw_df, cand, best, transfer>>

AUTO_ROWS == 10

\* max_try = min(10, len(raw_df) - 1)
max_try_short(raw) == (IF AUTO_ROWS < Len(raw) - 1 THEN AUTO_ROWS ELSE Len(raw) - 1) - 1

max_try(raw) == IF AUTO_ROWS < Len(raw) - 1 THEN AUTO_ROWS ELSE Len(raw) - 1

\* score > best[0], on pairs: the first components decide unless they are equal.
tuple_greater_or_equal(a, b) == a[1] > b[1] \/ (a[1] = b[1] /\ a[2] >= b[2])

tuple_greater(a, b) == a[1] > b[1] \/ (a[1] = b[1] /\ a[2] > b[2])

\* best = None, and the loop variable at the first value of range(0, max_try + 1).
StartAuto ==
    /\ pc = "header" /\ header_mode = "Auto-detect"
    /\ pc' = "auto" /\ best' = NoBest /\ h0' = 0
    /\ UNCHANGED <<inputs, error, loaded, cand, resolved, kept_headers, selected, transfer>>

\* if best is None or score > best[0]: best = (score, h0, candidate_df, ...)
keep_best(b, score, h, built, r) ==
    IF ~b.set \/ tuple_greater(score, b.score)
    THEN [set |-> TRUE, score |-> score, h0 |-> h, df |-> built.df,
          m2s |-> r.master_to_source, chosen |-> r.chosen_alias,
          unmatch |-> r.unmatched, rep |-> r.report_lines,
          kept_headers |-> built.keep_names]
    ELSE b

\* The loop's body: built is what build_on_df_from_raw returned and r what
\* build_mapping returned.
CandidateMapped(built, r) ==
    /\ MAPPING' = r.MAPPING
    /\ resolved' = r.resolved
    /\ kept_headers' = built.keep_names
    /\ cand' = [candidate_df |-> built.df, m2s |-> r.master_to_source,
                chosen |-> r.chosen_alias, unmatch |-> r.unmatched,
                rep |-> r.report_lines, score |-> <<r.resolved, Len(built.keep_names)>>]
    /\ best' = keep_best(best, <<r.resolved, Len(built.keep_names)>>, h0, built, r)

CandidateBuilt(built) == CandidateMapped(built, build_mapping(MAPPING, master_displays, built.df))

\* One pass of the loop over the candidates: row h0 as the header row.
TryCandidate ==
    /\ pc = "auto" /\ h0 <= max_try(raw_df)
    /\ CandidateBuilt(build_on_df_from_raw(raw_df, h0))
    /\ h0' = h0 + 1
    /\ UNCHANGED <<inputs, pc, error, master_ws, used_cols, master_displays, raw_df, selected,
                   transfer>>

\* best is None
no_candidate_resolved(b) == ~b.set \/ b.score[1] = 0

no_candidate(b) == ~b.set

\* After the loop: the error for no candidate, or the winner unpacked.
FinishAuto ==
    /\ pc = "auto" /\ h0 > max_try(raw_df)
    /\ IF no_candidate(best)
       THEN /\ error' = "NoUsableHeaderRow" /\ pc' = "stopped"
            /\ UNCHANGED <<h0, kept_headers, selected>>
       ELSE /\ error' = error /\ pc' = "transfer"
            /\ h0' = best.h0
            /\ on_df' = best.df
            /\ master_to_source' = best.m2s
            /\ chosen_alias' = best.chosen
            /\ unmatched' = best.unmatch
            /\ report' = best.rep
            /\ kept_headers' = best.kept_headers
            /\ detected_header_row' = best.h0 + 1
    /\ UNCHANGED <<inputs, loaded, cand, best, resolved, transfer>>

out_row_start == 3
blank_streak_limit == 50

\* row_has_any_data(i): some pd.Series of master_to_source has text at row i.
row_has_any_data(raw, df, m2s, row) ==
    \E c \in 1..Len(m2s) :
        /\ m2s[c].kind = "series"
        /\ row < DfLen(raw, df)
        /\ Strip(Chars(DfCell(raw, df, m2s[c].col, row))) # << >>

\* blanks >= blank_streak_limit
streak_over_late(n) == n > blank_streak_limit

streak_over(n) == n >= blank_streak_limit

\* target_row = out_row_start + written
target_row_by_source(n_written, row) == out_row_start + row

target_row(n_written, row) == out_row_start + n_written

\* The inner loop over the master columns c, c + 1, ... for source row `row`.
RECURSIVE write_row(_, _, _, _, _, _, _)
write_row(ws, raw, df, m2s, row, target, c) ==
    IF c > used_cols THEN ws
    ELSE LET src == IF c <= Len(m2s) THEN m2s[c] ELSE NoEntry
         IN  IF src = SENTINEL_LISTING_ACTION
             THEN write_row(SetCell(ws, target, c, "List"), raw, df, m2s, row, target, c + 1)
             ELSE IF src.kind = "series" /\ row < DfLen(raw, df)
             THEN write_row(SetCell(ws, target, c, DfCell(raw, df, src.col, row)),
                            raw, df, m2s, row, target, c + 1)
             ELSE write_row(ws, raw, df, m2s, row, target, c + 1)

\* One pass of "for i in range(len(on_df))": a row without data adds to the
\* streak (and ends the loop at the limit); a row with data is written.
TransferRow ==
    /\ pc = "transfer" /\ i < DfLen(raw_df, on_df)
    /\ i' = i + 1
    /\ IF ~row_has_any_data(raw_df, on_df, master_to_source, i)
       THEN /\ blanks' = blanks + 1
            /\ pc' = IF streak_over(blanks + 1) THEN "save" ELSE "transfer"
            /\ UNCHANGED <<written, master_ws>>
       ELSE /\ blanks' = 0
            /\ master_ws' = write_row(master_ws, raw_df, on_df, master_to_source, i,
                                      target_row(written, i), 1)
            /\ written' = written + 1
            /\ pc' = pc
    /\ UNCHANGED <<inputs, error, MAPPING, used_cols, master_displays, raw_df, detect, selected,
                   rows_written>>

\* range(len(on_df)) is used up.
TransferEnd ==
    /\ pc = "transfer" /\ i >= DfLen(raw_df, on_df)
    /\ pc' = "save"
    /\ UNCHANGED <<inputs, error, loaded, detect, selected, transfer>>

\* master_wb.save(bio) and st.success(f"... Rows written: **{written}**").
Save ==
    /\ pc = "save"
    /\ pc' = "done" /\ rows_written' = written
    /\ UNCHANGED <<inputs, error, loaded, detect, selected, blanks, written, i>>

Next ==
    \/ CheckUploads
    \/ LoadMapping
    \/ ReadMaster
    \/ ReadOnboarding
    \/ PickRow
    \/ StartAuto
    \/ TryCandidate
    \/ FinishAuto
    \/ TransferRow
    \/ TransferEnd
    \/ Save

Spec == Init /\ [][Next]_vars

\* ------------------------------------------- the header cleaner on its own

MaxHeaderLen == 4

HeaderCells == {"", " ", "A", "a", "B", "A.", "<nbsp>A"}

\* A call of build_on_df_from_raw on one raw header row.
InitResolver ==
    /\ masterfile_file = NoUpload(EmptyWs) /\ onboarding_file = NoUpload(<< >>)
    /\ mapping_text = NoJson /\ mapping_file = NoJson
    /\ header_mode = "Pick a row number" /\ header_row_manual = 1
    /\ error = ""
    /\ MAPPING = BuildMAPPING(<< >>) /\ master_ws = EmptyWs /\ used_cols = 0
    /\ master_displays = << >>
    /\ h0 = 0 /\ cand = NoCand /\ best = NoBest /\ resolved = 0 /\ kept_headers = << >>
    /\ on_df = NoDf /\ master_to_source = << >> /\ chosen_alias = << >> /\ unmatched = << >>
    /\ report = << >> /\ detected_header_row = 0
    /\ blanks = 0 /\ written = 0 /\ i = 0 /\ rows_written = -1
    /\ pc = "call"
    /\ raw_df \in {<<row>> : row \in SeqsUpTo(HeaderCells, MaxHeaderLen)}

\* on_df, kept_headers = build_on_df_from_raw(raw_df, 0)
CallResolver ==
    /\ pc = "call"
    /\ pc' = "returned"
    /\ on_df' = build_on_df_from_raw(raw_df, 0).df
    /\ kept_headers' = build_on_df_from_raw(raw_df, 0).keep_names
    /\ UNCHANGED <<inputs, error, loaded, h0, cand, best, resolved, master_to_source,
                   chosen_alias, unmatched, report, detected_header_row, transfer>>

NextResolver == CallResolver

SpecResolver == InitResolver /\ [][NextResolver]_vars

\* ------------------------------------------------------------------- claims

\* The alias table as the user supplied it: the JSON the script parses.
SuppliedTable == IF mapping_text.kind = "json" THEN mapping_text.table ELSE mapping_file.table
SuppliedMAPPING == BuildMAPPING(SuppliedTable)

AutoMode == header_mode = "Auto-detect"

\* A header row has been chosen and the mapping below belongs to it.
Selected == pc \in {"transfer", "save", "done"}

Min2(a, b) == IF a < b THEN a ELSE b

NormsOf(columns) == {norm(columns[j]) : j \in 1..Len(columns)}

\* The alias list of the claim: the table's entry for the normalized label,
\* then the label.
AliasListOf(label) ==
    Append(IF norm(label) \in DOMAIN SuppliedMAPPING THEN SuppliedMAPPING[norm(label)] ELSE << >>,
           label)

FirstMatching(list, norms) ==
    LET hits == {k \in 1..Len(list) : norm(list[k]) \in norms}
    IN  IF hits = {} THEN 0 ELSE CHOOSE k \in hits : \A m \in hits : k <= m

\* Master column c of the mapping m2s over the columns `columns` is the column
\* matched by the first matching alias, and no column when no alias matches.
FirstAliasWins(m2s, columns, c) ==
    LET list == AliasListOf(master_displays[c])
        first == FirstMatching(list, NormsOf(columns))
    IN  IF first = 0 THEN m2s[c].kind # "series"
        ELSE /\ m2s[c].kind = "series"
             /\ norm(columns[m2s[c].col]) = norm(list[first])

\* C1: build_mapping resolves every master column to the onboarding column
\* matched by the first alias of its alias list (table entry, then the label)
\* that matches some onboarding header, whatever the order of the columns; a
\* column none of whose aliases match is not resolved to a column.
C1_FirstAliasWins ==
    /\ (pc = "auto" /\ h0 >= 1) =>
          \A c \in 1..Len(master_displays) :
              FirstAliasWins(cand.m2s, cand.candidate_df.columns, c)
    /\ Selected =>
          \A c \in 1..Len(master_displays) :
              FirstAliasWins(master_to_source, on_df.columns, c)

\* Aliases [X, Y] for "Foo", onboarding columns Y, X, Foo: X is selected.
C1_Witness ==
    /\ Selected
    /\ on_df.columns = <<"Y", "X", "Foo">>
    /\ \E c \in 1..Len(master_displays) :
          /\ master_displays[c] = "Foo"
          /\ AliasListOf("Foo") = <<"X", "Y", "Foo">>
          /\ master_to_source[c] = SeriesRef(2)
          /\ chosen_alias[c] = "X"

\* Auto-detection has run to its end: it stopped with its error or chose a row.
AutoEnded == AutoMode /\ (Selected \/ error = "NoUsableHeaderRow")

\* The rows the loop of the auto-detect branch takes as header rows.
TriedRows == 0..Min2(AUTO_ROWS, Len(raw_df) - 1)

\* C2, as amended: auto-detection fails with the "no usable header row" error
\* exactly when the sheet has no rows, and then no candidate was selected; with
\* at least one row a candidate is always selected.
C2_FailsOnEmptySheet ==
    AutoEnded =>
        /\ (error = "NoUsableHeaderRow") <=> (Len(raw_df) = 0)
        /\ error = "NoUsableHeaderRow" =>
              pc = "stopped" /\ ~best.set /\ on_df = NoDf /\ detected_header_row = 0
        /\ error # "NoUsableHeaderRow" => best.set /\ detected_header_row = best.h0 + 1

C2_Witness == AutoEnded /\ error = "NoUsableHeaderRow" /\ pc = "stopped" /\ ~best.set

\* C2 as stated: the error whenever the sheet has fewer than 2 rows, and
\* whenever every candidate produces zero kept headers.
C2_AsStated ==
    (AutoEnded /\ (\/ Len(raw_df) < 2
                   \/ \A h \in TriedRows : build_on_df_from_raw(raw_df, h).keep_names = << >>))
        => error = "NoUsableHeaderRow" /\ ~best.set

\* C3, as amended: the header rows evaluated are exactly the offsets
\* 0 .. min(10, rowCount - 1), in order, once each: the loop starts at 0, every
\* pass evaluates row h0 with h0 in that range and moves to h0 + 1, and the loop
\* ends only when h0 has passed min(10, rowCount - 1).
C3_CandidateRange ==
    [][/\ (pc = "header" /\ pc' = "auto") => h0' = 0
       /\ (pc = "auto" /\ pc' = "auto") =>
             /\ h0 \in 0..Min2(10, Len(raw_df) - 1)
             /\ cand'.candidate_df.first = h0 + 1
             /\ h0' = h0 + 1
       /\ (pc = "auto" /\ pc' # "auto") => h0 = Min2(10, Len(raw_df) - 1) + 1]_vars

\* Eleven candidates, rows 0 to 10, have been evaluated on a sheet of 12 rows or more.
C3_Witness ==
    /\ pc = "auto" /\ h0 = 11 /\ Len(raw_df) >= 12
    /\ cand.candidate_df.first = 11

\* C3 as stated: every evaluated candidate lies in 0 .. min(10, rowCount - 1) - 1,
\* so the last row of the sheet is never one.
C3_AsStated ==
    (pc = "auto" /\ h0 >= 1) =>
        /\ cand.candidate_df.first - 1 \in 0..(Min2(10, Len(raw_df) - 1) - 1)
        /\ cand.candidate_df.first - 1 < Len(raw_df) - 1

LexGreater(a, b) == a[1] > b[1] \/ (a[1] = b[1] /\ a[2] > b[2])

\* What candidate row h yields, computed from the inputs alone.
Candidate(h) ==
    [df |-> build_on_df_from_raw(raw_df, h).df,
     kept |-> build_on_df_from_raw(raw_df, h).keep_names,
     r |-> Returned(build_mapping(SuppliedMAPPING, master_displays,
                                  build_on_df_from_raw(raw_df, h).df))]

ScoreOf(c) == <<c.r.resolved, Len(c.kept)>>

WinnerIs(w, cs) ==
    /\ \A h \in DOMAIN cs : ~LexGreater(ScoreOf(cs[h]), ScoreOf(cs[w]))
    /\ \A h \in DOMAIN cs : h < w => LexGreater(ScoreOf(cs[w]), ScoreOf(cs[h]))
    /\ on_df = cs[w].df
    /\ kept_headers = cs[w].kept
    /\ master_to_source = cs[w].r.master_to_source
    /\ chosen_alias = cs[w].r.chosen_alias
    /\ unmatched = cs[w].r.unmatched
    /\ report = cs[w].r.report_lines
    /\ best.score = ScoreOf(cs[w])

\* C4: the row auto-detection chooses has the lexicographically greatest pair
\* (resolvedCount, number of kept headers) of all evaluated candidates, and is
\* the first row with that pair; the DataFrame, mapping, chosen aliases,
\* unmatched list and report in use are that candidate's.
C4_BestCandidateWins ==
    (AutoMode /\ pc = "transfer" /\ i = 0) =>
        /\ detected_header_row - 1 \in TriedRows
        /\ WinnerIs(detected_header_row - 1, [h \in TriedRows |-> Candidate(h)])

\* Two candidates resolve the same number of columns; the later one keeps more
\* headers and wins.
C4_Witness ==
    /\ AutoMode /\ pc = "transfer" /\ i = 0
    /\ Len(raw_df) = 3
    /\ detected_header_row = 2
    /\ ScoreOf(Candidate(0))[1] = ScoreOf(Candidate(1))[1]
    /\ ScoreOf(Candidate(0))[2] < ScoreOf(Candidate(1))[2]
    /\ ScoreOf(Candidate(2)) = ScoreOf(Candidate(1))

\* The cell of source row k (0-based, below the header row) that resolved
\* master column c reads.
SourceCell(c, k) ==
    raw_df[on_df.first + k + 1][on_df.keep_indices[master_to_source[c].col] + 1]

IsBlank(s) == \A n \in 1..Len(Chars(s)) : Chars(s)[n] \in Whitespace

\* Every resolved (non-fixed-value) source column of row k is empty or whitespace.
Droppable(k) ==
    \A c \in 1..Len(master_to_source) :
        master_to_source[c].kind = "series" => IsBlank(SourceCell(c, k))

\* Destination row dest holds source row k: the source cell in every resolved
\* column, "List" in a fixed-value column, nothing elsewhere.
RowCarries(dest, k) ==
    \A c \in 1..used_cols :
        CellValue(master_ws, dest, c) =
            IF master_to_source[c].kind = "series" THEN SourceCell(c, k)
            ELSE IF master_to_source[c].kind = "sentinel" THEN "List"
            ELSE NoneCell

Rank(S, k) == Cardinality({m \in S : m < k})

\* The source rows that end a run of 50 droppable rows.
StreakEnds ==
    {e \in 49..(DfLen(raw_df, on_df) - 1) : \A m \in (e - 49)..e : Droppable(m)}

\* The number of source rows the transfer visits: all of them, or those up to
\* the end of the first run of 50 droppable rows.
Reach ==
    IF StreakEnds = {} THEN DfLen(raw_df, on_df)
    ELSE 1 + CHOOSE e \in StreakEnds : \A f \in StreakEnds : e <= f

\* The droppable rows at the end of the rows visited so far.
TrailingRun ==
    LET data == {k \in 0..(i - 1) : ~Droppable(k)}
    IN  IF data = {} THEN i ELSE i - 1 - CHOOSE k \in data : \A m \in data : m <= k

\* C5: rows are visited top to bottom; the streak counter is the number of
\* droppable rows since the last non-droppable row (a non-droppable row resets
\* it to zero) and stays below 50 while the transfer runs; the transfer ends at
\* the end of the first run of 50 droppable rows, or at the end of the sheet, and
\* exactly the non-droppable rows before that point are written: a data row
\* after 49 droppable rows is written, no row after 50 droppable rows is.
C5_BlankStreak ==
    Selected =>
        /\ blanks = TrailingRun
        /\ i <= Reach
        /\ pc = "transfer" => blanks < 50
        /\ pc \in {"save", "done"} =>
              /\ i = Reach
              /\ LET kept == {k \in 0..(Reach - 1) : ~Droppable(k)}
                 IN  /\ written = Cardinality(kept)
                     /\ \A k \in kept : RowCarries(3 + Rank(kept, k), k)

\* A data row after exactly 49 droppable rows has been written, and the
\* transfer has stopped at a later run of 50 droppable rows with rows left.
C5_Witness ==
    /\ pc = "done"
    /\ Reach < DfLen(raw_df, on_df)
    /\ \E k \in 49..(Reach - 1) :
          /\ ~Droppable(k)
          /\ \A m \in (k - 49)..(k - 1) : Droppable(m)
          /\ (k >= 50 => ~Droppable(k - 50))
    /\ written >= 1

\* The conditions the script treats as fatal, read off the inputs.
MappingUnusable ==
    \/ mapping_text.kind = "invalid"
    \/ mapping_text.kind = "blank" /\ mapping_file.kind \in {"blank", "invalid"}

FatalInput ==
    \/ masterfile_file.status # "ok"
    \/ onboarding_file.status # "ok"
    \/ MappingUnusable
    \/ ~AutoMode /\ header_row_manual > Len(onboarding_file.content)
    \/ AutoMode /\ Len(onboarding_file.content) = 0

\* The destination sheet is not loaded, or is as the template was loaded.
DestinationUntouched == master_ws = EmptyWs \/ master_ws = masterfile_file.content

\* C6: in every state where an error has been reported the run has stopped,
\* the destination sheet is identical to the loaded template and the transfer
\* loop has not started; and a run whose inputs have one of the fatal
\* conditions never reaches the transfer and never writes a cell.
C6_ErrorsAbortBeforeWrites ==
    /\ error # "" =>
          /\ pc = "stopped"
          /\ DestinationUntouched
          /\ i = 0 /\ written = 0 /\ blanks = 0 /\ rows_written = -1
    /\ FatalInput =>
          /\ pc \notin {"transfer", "save", "done"}
          /\ DestinationUntouched
          /\ pc = "stopped" => error # ""
    /\ pc = "stopped" => error # ""

\* An error reported after the template was loaded: the sheet is as loaded.
C6_Witness ==
    /\ error = "HeaderRowOutOfRange" /\ pc = "stopped"
    /\ master_ws = masterfile_file.content /\ master_ws # EmptyWs

\* norm("Listing Action (List or Unlist)"), spelled out.
ListingNorm ==
    <<"l", "i", "s", "t", "i", "n", "g", " ", "a", "c", "t", "i", "o", "n", " ",
      "l", "i", "s", "t", " ", "o", "r", " ", "u", "n", "l", "i", "s", "t">>

\* Master column c has the listing-action label and no alias of it matches.
FixedFill(c) ==
    /\ norm(master_displays[c]) = ListingNorm
    /\ FirstMatching(AliasListOf(master_displays[c]), NormsOf(on_df.columns)) = 0

\* The resolvedCount of the mapping in use.
ResolvedCount == IF AutoMode THEN best.score[1] ELSE resolved

\* C7: a master column with the listing-action label that no alias matches is
\* mapped to the fixed-value marker, is not counted in resolvedCount and is not
\* in the unmatched list; every destination row written holds "List" in it; and
\* only rows with data in a resolved column are written, so a mapping with no
\* resolved column writes nothing.
C7_ListingActionFixedFill ==
    Selected =>
        /\ \A c \in 1..Len(master_displays) :
              FixedFill(c) =>
                  /\ master_to_source[c] = SENTINEL_LISTING_ACTION
                  /\ \A u \in 1..Len(unmatched) : unmatched[u] # master_displays[c]
                  /\ \A r \in 3..(3 + written - 1) : CellValue(master_ws, r, c) = "List"
        /\ ResolvedCount =
              Cardinality({c \in 1..Len(master_displays) : master_to_source[c].kind = "series"})
        /\ written = Cardinality({k \in 0..(i - 1) : ~Droppable(k)})
        /\ (\A c \in 1..Len(master_displays) : master_to_source[c].kind # "series") =>
              written = 0 /\ master_ws = masterfile_file.content

\* The onboarding sheet has an "Action" column with data, the listing-action
\* column has no matching alias, and the written row holds "List" in it.
C7_Witness ==
    /\ pc = "done" /\ written >= 1
    /\ \E j \in 1..Len(on_df.columns) : on_df.columns[j] = "Action"
    /\ \E c \in 1..Len(master_displays) :
          /\ FixedFill(c)
          /\ master_to_source[c] = SENTINEL_LISTING_ACTION
          /\ CellValue(master_ws, 3, c) = "List"

\* The header row build_on_df_from_raw was called on, trimmed.
Trimmed == clean_header_row(raw_df[1])

\* The 0-based positions the claim keeps.
KeptPositions ==
    {p \in 0..(Len(Trimmed) - 1) :
        /\ norm(Trimmed[p + 1]) # << >>
        /\ \A q \in 0..(p - 1) : norm(Trimmed[q + 1]) # norm(Trimmed[p + 1])}

\* C8: build_on_df_from_raw keeps exactly the positions whose trimmed header
\* has a non-empty normalized form that no earlier header has: blank headers
\* are dropped, the first of several headers with one normalized form is kept,
\* the kept indices are strictly increasing, the kept names are the trimmed
\* headers at those indices and have pairwise distinct normalized forms; the
\* row ["A", "", "A", "B"] gives the names ["A", "B"] at the indices [0, 3].
C8_HeadersKept ==
    pc = "returned" =>
        /\ {on_df.keep_indices[k] : k \in 1..Len(on_df.keep_indices)} = KeptPositions
        /\ Len(on_df.keep_indices) = Cardinality(KeptPositions)
        /\ Len(kept_headers) = Len(on_df.keep_indices)
        /\ on_df.columns = kept_headers
        /\ \A k \in 1..(Len(on_df.keep_indices) - 1) :
              on_df.keep_indices[k] < on_df.keep_indices[k + 1]
        /\ \A k \in 1..Len(kept_headers) :
              kept_headers[k] = Trimmed[on_df.keep_indices[k] + 1]
        /\ \A k, m \in 1..Len(kept_headers) :
              k # m => norm(kept_headers[k]) # norm(kept_headers[m])
        /\ raw_df[1] = <<"A", "", "A", "B">> =>
              kept_headers = <<"A", "B">> /\ on_df.keep_indices = <<0, 3>>

C8_Witness ==
    /\ pc = "returned"
    /\ raw_df[1] = <<"A", "", "A", "B">>
    /\ kept_headers = <<"A", "B">>
    /\ on_df.keep_indices = <<0, 3>>

\* What a first call of build_mapping, on the alias table as supplied, returns
\* for header row h.
FirstCall(h) ==
    Returned(build_mapping(SuppliedMAPPING, master_displays, build_on_df_from_raw(raw_df, h).df))

SameResults(r, count, m2s, chosen, unmatch, rep) ==
    /\ count = r.resolved
    /\ m2s = r.master_to_source
    /\ chosen = r.chosen_alias
    /\ unmatch = r.unmatched
    /\ rep = r.report_lines

\* C9: whatever calls of build_mapping came before in the pass, and whatever
\* they appended to the alias lists, a call returns the resolvedCount, mapping,
\* chosen aliases, unmatched list and report that a first call on the alias
\* table as supplied returns for the same master and onboarding columns.
C9_HistoryIndependent ==
    /\ (pc = "auto" /\ h0 >= 1) =>
          SameResults(FirstCall(h0 - 1), resolved, cand.m2s, cand.chosen, cand.unmatch, cand.rep)
    /\ (~AutoMode /\ pc = "transfer" /\ i = 0) =>
          SameResults(FirstCall(detected_header_row - 1), resolved, master_to_source,
                      chosen_alias, unmatched, report)

\* A third call, made on alias lists earlier calls have appended to.
C9_Witness ==
    /\ pc = "auto" /\ h0 = 3
    /\ MAPPING # SuppliedMAPPING
    /\ \E n \in DOMAIN SuppliedMAPPING : Len(MAPPING[n]) >= Len(SuppliedMAPPING[n]) + 2
    /\ resolved >= 1

\* The cells of the destination sheet that differ from the loaded template.
Touched ==
    IF master_ws = EmptyWs THEN {}
    ELSE {p \in DOMAIN master_ws.cells :
             CellValue(masterfile_file.content, p[1], p[2]) # master_ws.cells[p]}

\* The non-droppable source rows among those visited so far.
Visited == {k \in 0..(i - 1) : ~Droppable(k)}

\* C10: at every point of the transfer the destination rows written are exactly
\* rows 3 .. 3 + written - 1, the k-th non-droppable source row visited is in
\* row 3 + k - 1, only cells in columns 1..used_cols of those rows are written,
\* written is the number of non-droppable rows visited, and that is the count
\* reported at the end.
C10_ContiguousRows ==
    /\ {p[1] : p \in Touched} = 3..(3 + written - 1)
    /\ \A p \in Touched : p[2] \in 1..used_cols
    /\ written = Cardinality(Visited)
    /\ \A k \in Visited : RowCarries(3 + Rank(Visited, k), k)
    /\ pc = "done" => rows_written = written
    /\ pc # "done" => rows_written = -1

\* Two rows written around a droppable row that left no gap.
C10_Witness ==
    /\ pc = "done" /\ rows_written = 2
    /\ Visited = {0, 2}
    /\ {p[1] : p \in Touched} = {3, 4}

=============================================================================
